---- MODULE Spec2Model ----
(***************************************************************************)
(* Model of the backoff n-gram language model, src/models/backoff.py       *)
(* (class BackoffLM).                                                      *)
(*                                                                         *)
(* An utterance is modelled by the token sequence utt.split() yields.      *)
(* Weights of the context table are floats in the source; they are exact   *)
(* rationals <<numerator, denominator>> in lowest terms here.              *)
(* An exception leaving a method is recorded as the outcome of the call;   *)
(* the model object outlives it with whatever state the method had         *)
(* reached.  The program is single-threaded: the caller makes one call at  *)
(* a time (Idle) and takes its outcome (Return) before it makes the next.  *)
(***************************************************************************)
EXTENDS Integers, Sequences, FiniteSets, TLC

(* ---------------- bounds of the model ---------------- *)
\* Utterances plus tokens of the corpora one model instance is trained on.
MaxCorpusSize == 4
\* Values of the configuration.
MaxOrder == 3
MaxMinFreq == 2
\* Arguments of the queries.
MaxCtxLen == 2
MaxUttLen == 2
MaxMulti == 2

(* ---------------- tokens ---------------- *)
OOV_TOKEN == "__oov__"

\* Python's None: the padding symbol of nltk.ngrams and the boundary token
\* counted once per utterance.
None == "<None>"

\* Token strings of the training corpora; the literal OOV string is one of them.
Words == {"a", "b", OOV_TOKEN}

\* Token strings of the queries; "z" occurs in no training corpus.
QueryWords == {"a", "z"}

Tokens == QueryWords \cup {None}

RECURSIVE SeqsUpTo(_, _)
SeqsUpTo(S, n) ==
    IF n = 0 THEN {<< >>}
    ELSE LET shorter == SeqsUpTo(S, n - 1)
         IN  shorter \cup {Append(s, x) : s \in {t \in shorter : Len(t) = n - 1}, x \in S}

\* The training corpora of size at most m, the size of a corpus being the
\* number of its utterances plus the number of its tokens (the number of
\* occurrences __train_vocab counts).
RECURSIVE CorporaUpTo(_)
CorporaUpTo(m) ==
    IF m <= 0 THEN {<< >>}
    ELSE {<< >>} \cup
         UNION {{<<u>> \o c : c \in CorporaUpTo(m - 1 - Len(u))} : u \in SeqsUpTo(Words, m - 1)}

RECURSIVE CorpusSize(_)
CorpusSize(utts) ==
    IF utts = << >> THEN 0 ELSE 1 + Len(Head(utts)) + CorpusSize(Tail(utts))

\* The arguments of the queries.
Contexts == SeqsUpTo(Tokens, MaxCtxLen)
Queries == SeqsUpTo(QueryWords, MaxUttLen)
Batches == SeqsUpTo({<<"a">>, <<"z", "a">>}, MaxMulti)

(* ---------------- exact arithmetic for the float weights ---------------- *)
RECURSIVE GCD(_, _)
GCD(a, b) == IF b = 0 THEN a ELSE GCD(b, a % b)

Rat(n, d) == LET g == GCD(n, d) IN <<n \div g, d \div g>>
RatAdd(x, y) == Rat(x[1] * y[2] + y[1] * x[2], x[2] * y[2])
RatMul(x, y) == Rat(x[1] * y[1], x[2] * y[2])
RatDiv(x, y) == Rat(x[1] * y[2], x[2] * y[1])
RatLeq(x, y) == x[1] * y[2] <= y[1] * x[2]
RatLt(x, y) == x[1] * y[2] < y[1] * x[2]
Zero == <<0, 1>>
One == <<1, 1>>

(* ---------------- state ---------------- *)
VARIABLES
    vocab,          \* self.vocab: token -> count (collections.Counter)
    table,          \* the dict the model is: context -> (token -> weight)
    is_normalized,  \* self.is_normalized
    min_freq,       \* self.min_freq
    ngram_size,     \* self.ngram_size
    trains,         \* number of train calls that passed the state check
    fed,            \* size of the corpora those calls were given, in all
    trained,        \* the corpus and the locals of the latest such train call
    last,           \* the latest call and how it ended
    store,          \* the file MODEL_FILENAME: the pickled model, or NoFile
    pc,             \* the position of add_perplexities ("off": not in use)
    runs            \* number of runs of add_perplexities begun

vars == <<vocab, table, is_normalized, min_freq, ngram_size, trains, fed, trained, last,
          store, pc, runs>>

EmptyFn == [x \in {} |-> 0]

\* Counter.__getitem__: a missing key reads as 0.
Count(c, w) == IF w \in DOMAIN c THEN c[w] ELSE 0

RECURSIVE SumOver(_, _)
SumOver(c, S) ==
    IF S = {} THEN 0
    ELSE LET w == CHOOSE x \in S : TRUE IN c[w] + SumOver(c, S \ {w})

\* sum(self.vocab.values())
SumCounts(c) == SumOver(c, DOMAIN c)

RECURSIVE RatSumOver(_, _)
RatSumOver(d, S) ==
    IF S = {} THEN Zero
    ELSE LET w == CHOOSE x \in S : TRUE IN RatAdd(d[w], RatSumOver(d, S \ {w}))

\* sum(self[context].values())
RatSum(d) == RatSumOver(d, DOMAIN d)

(* ---------------- __to_vocab ---------------- *)
ToVocabWord(v, text) == IF text \in DOMAIN v THEN text ELSE OOV_TOKEN

ToVocab(v, text) == [i \in 1..Len(text) |-> ToVocabWord(v, text[i])]

(* ---------------- __train_vocab ---------------- *)
\* Counter.update(list)
RECURSIVE Update(_, _)
Update(c, toks) ==
    IF toks = << >> THEN c
    ELSE LET w == Head(toks)
             c1 == [x \in DOMAIN c \cup {w} |-> IF x = w THEN Count(c, w) + 1 ELSE c[x]]
         IN  Update(c1, Tail(toks))

RECURSIVE CountUtts(_, _)
CountUtts(c, utts) ==
    IF utts = << >> THEN c
    ELSE CountUtts(Update(c, <<None>> \o Head(utts)), Tail(utts))

BelowMinFreqMut(c, mf) == c < mf - 1
BelowMinFreq(c, mf) == c < mf

OovWords(c, mf) == {w \in DOMAIN c : BelowMinFreq(c[w], mf)}

\* The orders in which the set oov_words may be iterated.
RECURSIVE Orders(_)
Orders(S) ==
    IF S = {} THEN {<< >>}
    ELSE UNION {{<<x>> \o o : o \in Orders(S \ {x})} : x \in S}

\* self.vocab[self.oov] = 0
ResetOov(c) == [x \in DOMAIN c \cup {OOV_TOKEN} |-> IF x = OOV_TOKEN THEN 0 ELSE c[x]]

\* for word in oov_words: self.vocab[self.oov] += self.vocab[word]; del self.vocab[word]
RECURSIVE FoldLoop(_, _)
FoldLoop(c, order) ==
    IF order = << >> THEN c
    ELSE LET word == Head(order)
             sum == Count(c, OOV_TOKEN) + Count(c, word)
             c1 == [x \in DOMAIN c \cup {OOV_TOKEN} |-> IF x = OOV_TOKEN THEN sum ELSE c[x]]
             c2 == [x \in DOMAIN c1 \ {word} |-> c1[x]]
         IN  FoldLoop(c2, Tail(order))

TrainVocab(counted, order) == FoldLoop(ResetOov(counted), order)

(* ---------------- __generate_ngrams ---------------- *)
Pad(k) == [i \in 1..k |-> None]

\* nltk.ngrams(tokens, n, pad_left=True, pad_right=True)
Ngrams(toks, n) ==
    LET padded == Pad(n - 1) \o toks \o Pad(n - 1)
    IN  [i \in 1..(Len(padded) - n + 1) |-> SubSeq(padded, i, i + n - 1)]

RECURSIVE GenerateNgrams(_, _)
GenerateNgrams(toks, max_ngram_size) ==
    IF max_ngram_size = 0 THEN << >>
    ELSE GenerateNgrams(toks, max_ngram_size - 1) \o Ngrams(toks, max_ngram_size)

\* ngram[:-1] and ngram[-1]
ContextOf(ngram) == SubSeq(ngram, 1, Len(ngram) - 1)
WordOf(ngram) == ngram[Len(ngram)]

(* ---------------- __observe ---------------- *)
Observe(tbl, v, word, context) ==
    LET ctx == ToVocab(v, context)
        w == ToVocabWord(v, word)
        dist == IF ctx \in DOMAIN tbl THEN tbl[ctx] ELSE EmptyFn
        old == IF w \in DOMAIN dist THEN dist[w] ELSE Zero
        dist1 == [x \in DOMAIN dist \cup {w} |-> IF x = w THEN RatAdd(old, One) ELSE dist[x]]
    IN  [k \in DOMAIN tbl \cup {ctx} |-> IF k = ctx THEN dist1 ELSE tbl[k]]

RECURSIVE ObserveNgrams(_, _, _)
ObserveNgrams(tbl, v, ngrams) ==
    IF ngrams = << >> THEN tbl
    ELSE ObserveNgrams(Observe(tbl, v, WordOf(Head(ngrams)), ContextOf(Head(ngrams))),
                       v, Tail(ngrams))

\* the loop of train over the utterances
RECURSIVE ObserveUtts(_, _, _, _)
ObserveUtts(tbl, v, utts, n) ==
    IF utts = << >> THEN tbl
    ELSE ObserveUtts(ObserveNgrams(tbl, v, GenerateNgrams(Head(utts), n)), v, Tail(utts), n)

(* ---------------- __normalize ---------------- *)
NormDenomMut(count, V) == count
NormDenom(count, V) == RatAdd(count, <<V, 1>>)

\* the inner loop: every recorded weight w becomes (w + 1) / denom
Smooth(dist, V) ==
    LET denom == NormDenom(RatSum(dist), V)
    IN  [w \in DOMAIN dist |-> RatDiv(RatAdd(dist[w], One), denom)]

\* self[context][self.oov] = 1.0 / len(self.vocab)
SetOovSkipMut(dist, V) == dist
SetOovMut(dist, V) ==
    [w \in DOMAIN dist \cup {OOV_TOKEN} |-> IF w = OOV_TOKEN THEN Rat(V, 1) ELSE dist[w]]
SetOovOneMut(dist, V) ==
    [w \in DOMAIN dist \cup {OOV_TOKEN} |-> IF w = OOV_TOKEN THEN One ELSE dist[w]]
SetOov(dist, V) ==
    [w \in DOMAIN dist \cup {OOV_TOKEN} |-> IF w = OOV_TOKEN THEN Rat(1, V) ELSE dist[w]]

NormalizeContext(dist, V) == SetOov(Smooth(dist, V), V)

\* len(self.vocab)
VocabSizeMut(v) == Cardinality(DOMAIN v \ {OOV_TOKEN})
VocabSize(v) == Cardinality(DOMAIN v)

Normalize(tbl, v) ==
    LET V == VocabSize(v)
    IN  [k \in DOMAIN tbl |-> NormalizeContext(tbl[k], V)]

\* 1.0 / len(self.vocab) raises ZeroDivisionError for an empty vocabulary,
\* in the first context the loop visits, after that context's inner loop.
NormalizeRaises(tbl, v) == VocabSize(v) = 0 /\ DOMAIN tbl # {}

NormalizeAborted(tbl, first) ==
    [k \in DOMAIN tbl |-> IF k = first THEN Smooth(tbl[k], 0) ELSE tbl[k]]

(* ---------------- records of calls ---------------- *)
NoCall ==
    [op |-> "idle", outcome |-> "ok", word |-> "", context |-> << >>, utt |-> << >>,
     utts |-> << >>, p |-> Zero, path |-> "", steps |-> 0, looked |-> << >>,
     scored |-> 0, lookups |-> << >>, div |-> 1, perps |-> << >>, mean_n |-> 0]

\* No call is in progress.
Idle == last.op = "idle"

\* The corpus of a train call as a bag: utterance -> number of occurrences.
RECURSIVE BagOf(_)
BagOf(utts) ==
    IF utts = << >> THEN EmptyFn
    ELSE LET b == BagOf(Tail(utts))
             u == Head(utts)
         IN  [x \in DOMAIN b \cup {u} |-> IF x = u THEN Count(b, u) + 1 ELSE b[x]]

NoTrain == [corpus |-> EmptyFn, counted |-> EmptyFn, vocab |-> EmptyFn, raw |-> EmptyFn]

(* ---------------- __init__ ---------------- *)
\* os.path.exists(filepath) is false
NoFile == [exists |-> FALSE]

\* pickle.dump(self, outfile): the dict the model is and its attributes
Pickled ==
    [exists |-> TRUE, vocab |-> vocab, table |-> table, is_normalized |-> is_normalized,
     min_freq |-> min_freq, ngram_size |-> ngram_size]

InitIsNormalizedMut == TRUE
InitIsNormalized == FALSE

Init ==
    /\ vocab = EmptyFn
    /\ table = EmptyFn
    /\ is_normalized = InitIsNormalized
    /\ min_freq \in 1..MaxMinFreq
    /\ ngram_size \in 1..MaxOrder
    /\ trains = 0
    /\ fed = 0
    /\ trained = NoTrain
    /\ last = NoCall
    /\ store = NoFile
    /\ pc = "off"
    /\ runs = 0

(* ---------------- train ---------------- *)
TrainGuardMut == FALSE
TrainGuard == is_normalized

\* The vocabulary after the n-gram counting and the normalization of train:
\* __observe, __to_vocab and __normalize read self.vocab and do not write it.
ReadVocabMut(v, utts) == IF utts = << >> THEN v ELSE Update(v, <<OOV_TOKEN>>)
ReadVocab(v, utts) == v

\* order: the iteration order of the set oov_words; first: the context the
\* normalization loop visits first.
TrainBody(utts, counted, order) ==
    LET v == TrainVocab(counted, order)
        raw == ObserveUtts(table, v, utts, ngram_size)
    IN  /\ vocab' = ReadVocab(v, utts)
        /\ trains' = trains + 1
        /\ fed' = fed + CorpusSize(utts)
        /\ trained' = [corpus |-> BagOf(utts), counted |-> counted, vocab |-> v, raw |-> raw]
        /\ IF NormalizeRaises(raw, v)
           THEN /\ \E first \in DOMAIN raw : table' = NormalizeAborted(raw, first)
                /\ is_normalized' = is_normalized
                /\ last' = [NoCall EXCEPT !.op = "train", !.outcome = "ZeroDivisionError"]
           ELSE /\ table' = Normalize(raw, v)
                /\ is_normalized' = TRUE
                /\ last' = [NoCall EXCEPT !.op = "train"]
        /\ UNCHANGED <<min_freq, ngram_size, store, pc, runs>>

\* The corpora within what is left of the bound.
Affordable == CorporaUpTo(MaxCorpusSize - fed)

\* train(utts), for utts one of corpora
TrainOn(corpora) ==
    IF TrainGuard
    THEN /\ last' = [NoCall EXCEPT !.op = "train", !.outcome = "exit"]
         /\ UNCHANGED <<vocab, table, is_normalized, min_freq, ngram_size, trains, fed, trained,
                        store, pc, runs>>
    ELSE \E utts \in corpora :
            LET counted == CountUtts(vocab, utts)
            IN  \E order \in Orders(OovWords(counted, min_freq)) :
                   TrainBody(utts, counted, order)

Train == Idle /\ TrainOn(Affordable)

(* ---------------- prob ---------------- *)
ProbGuardMut == FALSE
ProbGuard == ~is_normalized

\* context = tuple(context[1:])
ShortenMut(context) == SubSeq(context, 1, Len(context) - 1)
Shorten(context) == Tail(context)

\* len(context) > 1
CanShortenMut(context) == Len(context) > 0
CanShorten(context) == Len(context) > 1

\* while context not in self and len(context) > 1: ...
\* steps counts the iterations of the loop.
RECURSIVE Backoff(_, _, _)
Backoff(tbl, context, steps) ==
    IF context \notin DOMAIN tbl /\ CanShorten(context)
    THEN Backoff(tbl, Shorten(context), steps + 1)
    ELSE [context |-> context, steps |-> steps]

\* __uni_p
UniP(v, word) ==
    IF SumCounts(v) = 0
    THEN [outcome |-> "ZeroDivisionError", p |-> Zero]
    ELSE [outcome |-> "ok", p |-> Rat(Count(v, word), SumCounts(v))]

ProbCall(word, context) ==
    IF ProbGuard
    THEN [outcome |-> "exit", p |-> Zero, path |-> "", steps |-> 0, looked |-> << >>]
    ELSE LET w == ToVocabWord(vocab, word)
             b == Backoff(table, ToVocab(vocab, context), 0)
             ctx == b.context
         IN  IF ctx \notin DOMAIN table
             THEN [outcome |-> "KeyError", p |-> Zero, path |-> "", steps |-> b.steps,
                   looked |-> ctx]
             ELSE IF w \in DOMAIN table[ctx]
             THEN [outcome |-> "ok", p |-> table[ctx][w], path |-> "stored",
                   steps |-> b.steps, looked |-> ctx]
             ELSE [outcome |-> UniP(vocab, w).outcome, p |-> UniP(vocab, w).p,
                   path |-> "unigram", steps |-> b.steps, looked |-> ctx]

\* The table after a prob call: `context not in self`, `self[context]` on the
\* dict and `word in self[context]` on the defaultdict insert nothing, and
\* self[context][word] is read only for a recorded word.
ProbTableMut(word, context) ==
    LET w == ToVocabWord(vocab, word)
        ctx == Backoff(table, ToVocab(vocab, context), 0).context
    IN  IF ProbGuard \/ ctx \notin DOMAIN table THEN table
        ELSE [table EXCEPT ![ctx] =
                 [x \in DOMAIN table[ctx] \cup {w} |->
                     IF x \in DOMAIN table[ctx] THEN table[ctx][x] ELSE Zero]]
ProbTable(word, context) == table

Prob(word, context) ==
    LET r == ProbCall(word, context)
    IN  /\ last' = [NoCall EXCEPT !.op = "prob", !.outcome = r.outcome, !.word = word,
                                  !.context = context, !.p = r.p, !.path = r.path,
                                  !.steps = r.steps, !.looked = r.looked]
        /\ table' = ProbTable(word, context)
        /\ UNCHANGED <<vocab, is_normalized, min_freq, ngram_size, trains, fed, trained,
                     store, pc, runs>>

(* ---------------- perplexity ---------------- *)
\* list(ngrams)[:-1]
Scored(toks, n) ==
    LET ngrams == Ngrams(toks, n) IN SubSeq(ngrams, 1, Len(ngrams) - 1)

\* The loop over the scored n-grams: log_p is kept as the product of the
\* probabilities its terms are the log2 of; the first prob call that raises
\* ends the loop.
RECURSIVE ScoreLoop(_, _, _, _)
ScoreLoop(ngrams, prod, done, lookups) ==
    IF ngrams = << >>
    THEN [outcome |-> "ok", p |-> prod, scored |-> done, lookups |-> lookups]
    ELSE LET r == ProbCall(WordOf(Head(ngrams)), ContextOf(Head(ngrams)))
         IN  IF r.outcome # "ok"
             THEN [outcome |-> r.outcome, p |-> prod, scored |-> done,
                   lookups |-> Append(lookups, r.looked)]
             ELSE ScoreLoop(Tail(ngrams), RatMul(prod, r.p), done + 1,
                            Append(lookups, r.looked))

\* perplexity = 2 ** (-log2(p) / div); lookups: the contexts its prob calls
\* looked up in the table.
PerplexityCall(utt) ==
    LET r == ScoreLoop(Scored(utt, ngram_size), One, 0, << >>)
    IN  [outcome |-> r.outcome, p |-> r.p, scored |-> r.scored, lookups |-> r.lookups,
         div |-> Len(utt) + 1]

Perplexity(utt) ==
    LET r == PerplexityCall(utt)
    IN  /\ last' = [NoCall EXCEPT !.op = "perplexity", !.outcome = r.outcome, !.utt = utt,
                                  !.p = r.p, !.scored = r.scored, !.lookups = r.lookups,
                                  !.div = r.div]
        /\ UNCHANGED <<vocab, table, is_normalized, min_freq, ngram_size, trains, fed, trained,
                         store, pc, runs>>

(* ---------------- perplexity_multi ---------------- *)
\* The list perplexities; the first perplexity call that raises ends the loop.
RECURSIVE MultiLoop(_, _)
MultiLoop(utts, perps) ==
    IF utts = << >> THEN [outcome |-> "ok", perps |-> perps]
    ELSE LET r == PerplexityCall(Head(utts))
         IN  IF r.outcome # "ok"
             THEN [outcome |-> r.outcome, perps |-> perps]
             ELSE MultiLoop(Tail(utts), Append(perps, [p |-> r.p, div |-> r.div]))

\* np.mean divides the sum of the log2 of the perplexities by their number.
MeanCountMut(perps) == Len(perps) + 1
MeanCount(perps) == Len(perps)

\* The value returned is 2 ** (sum of log2(perps[i]) / mean_n), the geometric
\* mean of perps (nan for an empty list).
PerplexityMulti(utts) ==
    LET r == MultiLoop(utts, << >>)
    IN  /\ last' = [NoCall EXCEPT !.op = "perplexity_multi", !.outcome = r.outcome,
                                  !.utts = utts, !.perps = r.perps,
                                  !.mean_n = MeanCount(r.perps)]
        /\ UNCHANGED <<vocab, table, is_normalized, min_freq, ngram_size, trains, fed, trained,
                         store, pc, runs>>

(* ---------------- save ---------------- *)
Save ==
    /\ Idle
    /\ last' = [NoCall EXCEPT !.op = "save"]
    /\ store' = Pickled
    /\ UNCHANGED <<vocab, table, is_normalized, min_freq, ngram_size, trains, fed, trained,
                   pc, runs>>

(* ---------------- the caller ---------------- *)
\* The caller takes the outcome of the call it made.
Return ==
    /\ ~Idle
    /\ last' = NoCall
    /\ UNCHANGED <<vocab, table, is_normalized, min_freq, ngram_size, trains, fed, trained,
                         store, pc, runs>>

\* The calls of the caller with their arguments.
CallProb == Idle /\ \E word \in Tokens, context \in Contexts : Prob(word, context)
CallPerplexity == Idle /\ \E utt \in Queries : Perplexity(utt)
CallPerplexityMulti == Idle /\ \E utts \in Batches : PerplexityMulti(utts)

Next ==
    \/ Train
    \/ CallProb
    \/ CallPerplexity
    \/ CallPerplexityMulti
    \/ Return

Spec == Init /\ [][Next]_vars

(* ---------------- add_perplexities and the model file ---------------- *)
MaxRuns == 2

\* def __init__(self, oov=OOV_TOKEN, min_freq=2, ngram_size=3)
DefaultMinFreq == 2
DefaultNgramSize == 3

\* `not model`: check_pkl returns None when there is no file, and a BackoffLM
\* is a dict, which is false when it has no key.
Falsy(file) == ~file.exists \/ DOMAIN file.table = {}

InitCache ==
    /\ vocab = EmptyFn
    /\ table = EmptyFn
    /\ is_normalized = InitIsNormalized
    /\ min_freq = DefaultMinFreq
    /\ ngram_size = DefaultNgramSize
    /\ trains = 0
    /\ fed = 0
    /\ trained = NoTrain
    /\ last = NoCall
    /\ store = NoFile
    /\ pc = "idle"
    /\ runs = 0

\* model = check_pkl(MODEL_FILENAME); if not model: model = BackoffLM()
RunLoad ==
    /\ pc = "idle"
    /\ runs < MaxRuns
    /\ runs' = runs + 1
    /\ IF Falsy(store)
       THEN /\ vocab' = EmptyFn
            /\ table' = EmptyFn
            /\ is_normalized' = InitIsNormalized
            /\ min_freq' = DefaultMinFreq
            /\ ngram_size' = DefaultNgramSize
            /\ pc' = "train"
       ELSE /\ vocab' = store.vocab
            /\ table' = store.table
            /\ is_normalized' = store.is_normalized
            /\ min_freq' = store.min_freq
            /\ ngram_size' = store.ngram_size
            /\ pc' = "score"
    /\ trains' = 0
    /\ fed' = 0
    /\ trained' = NoTrain
    /\ UNCHANGED <<last, store>>

\* switchboard = get_utterances(); model.train(switchboard)
RunTrain == pc = "train" /\ Train

\* model.save(MODEL_FILENAME)
RunSave == pc = "save" /\ Save

\* transcript.data['text'].apply(model.perplexity)
RunScore == pc = "score" /\ CallPerplexity

\* The position after a call: an exception ends the run.
AfterCall(call) ==
    IF call.outcome # "ok" THEN "idle"
    ELSE IF call.op = "train" THEN "save"
    ELSE "score"

RunReturn ==
    /\ pc # "off"
    /\ ~Idle
    /\ last' = NoCall
    /\ pc' = AfterCall(last)
    /\ UNCHANGED <<vocab, table, is_normalized, min_freq, ngram_size, trains, fed, trained,
                   store, runs>>

\* the loop over the transcripts ends
RunEnd ==
    /\ pc = "score"
    /\ Idle
    /\ pc' = "idle"
    /\ UNCHANGED <<vocab, table, is_normalized, min_freq, ngram_size, trains, fed, trained,
                   last, store, runs>>

NextCache ==
    \/ RunLoad
    \/ RunTrain
    \/ RunSave
    \/ RunScore
    \/ RunReturn
    \/ RunEnd

SpecCache == InitCache /\ [][NextCache]_vars

(* ---------------- the model of the worked example ---------------- *)
ScenarioCorpus ==
    <<<<"the", "cat", "sat">>, <<"the", "cat", "ran">>, <<"the", "dog", "sat">>>>
ScenarioWords == {"the", "cat", "dog", "xyz", None}
ScenarioContexts == SeqsUpTo(ScenarioWords, 2)
ScenarioQueries == {<<"the", "cat", "sat">>, <<"xyz", "qqq", "zzz">>, <<"the", "dog">>}

\* BackoffLM(min_freq=2, ngram_size=2)
InitScenario ==
    /\ vocab = EmptyFn
    /\ table = EmptyFn
    /\ is_normalized = InitIsNormalized
    /\ min_freq = 2
    /\ ngram_size = 2
    /\ trains = 0
    /\ fed = 0
    /\ trained = NoTrain
    /\ last = NoCall
    /\ store = NoFile
    /\ pc = "off"
    /\ runs = 0

TrainScenario == Idle /\ TrainOn({ScenarioCorpus})
CallProbScenario ==
    Idle /\ \E word \in ScenarioWords, context \in ScenarioContexts : Prob(word, context)
CallPerplexityScenario == Idle /\ \E utt \in ScenarioQueries : Perplexity(utt)

NextScenario ==
    \/ TrainScenario
    \/ CallProbScenario
    \/ CallPerplexityScenario
    \/ Return

SpecScenario == InitScenario /\ [][NextScenario]_vars

(***************************************************************************)
(* Properties                                                              *)
(***************************************************************************)

\* C1: a train call on a model whose is_normalized flag is set ends with the
\* error exit and leaves vocab, table and is_normalized as they were.
C1_TrainRejected ==
    [][(Idle /\ is_normalized /\ last'.op = "train")
          => (last'.outcome = "exit" /\ UNCHANGED <<vocab, table, is_normalized>>)]_vars

C1_Witness ==
    /\ last.op = "train"
    /\ last.outcome = "exit"
    /\ is_normalized
    /\ DOMAIN table # {}

\* C2: a prob call on a model that is not normalized ends with the error exit,
\* whatever the word and the context, and returns no probability.
C2_ProbRejected ==
    (last.op = "prob" /\ ~is_normalized) => last.outcome = "exit"

C2_Witness ==
    /\ last.op = "prob"
    /\ ~is_normalized
    /\ last.outcome = "exit"
    /\ Len(last.context) = 2

\* C3: a perplexity call on a model that is not normalized ends with the error
\* exit for every utterance and every order >= 1, and returns no number.
C3_PerplexityRejected ==
    (last.op = "perplexity" /\ ~is_normalized) => last.outcome = "exit"

WellFormed ==
    /\ is_normalized
    /\ << >> \in DOMAIN table
    /\ OOV_TOKEN \in DOMAIN vocab
    /\ \A k \in DOMAIN table : OOV_TOKEN \in DOMAIN table[k]

\* C5: on a well-formed normalized model a prob call returns a probability and
\* never raises, also for a context of the model's own order whose mapped
\* tokens were never seen as a context in training.
C5_ProbNeverRaises ==
    (last.op = "prob" /\ WellFormed /\ Len(last.context) = ngram_size - 1)
        => last.outcome = "ok"

\* C6: after training, every vocabulary token other than the OOV token (the
\* boundary token None included) has a count of at least min_freq.
C6_RetainedAtLeastMinFreq ==
    trains >= 1 => \A w \in DOMAIN vocab \ {OOV_TOKEN} : vocab[w] >= min_freq

C6_Witness ==
    /\ last.op = "train"
    /\ last.outcome = "ok"
    /\ min_freq = 2
    /\ "a" \in DOMAIN vocab
    /\ Count(vocab, OOV_TOKEN) > 0

\* C7: after training, the count of the OOV token is the sum of the counts of
\* the tokens removed from the vocabulary for being below min_freq.
C7_OovCountIsRemovedMass ==
    (last.op = "train" /\ last.outcome = "ok")
        => Count(vocab, OOV_TOKEN)
             = SumOver(trained.counted, OovWords(trained.counted, min_freq))

\* C8: after training, the OOV token is a key of the vocabulary.
C8_OovPresent ==
    (last.op = "train" /\ last.outcome = "ok") => OOV_TOKEN \in DOMAIN vocab

\* C9: after normalization the probabilities recorded for a context, the 1/V
\* entry of the OOV token included, sum to at most 1.
C9_MassAtMostOne ==
    is_normalized => \A k \in DOMAIN table : RatLeq(RatSum(table[k]), One)

\* C10: every value a prob call returns on a normalized model, stored
\* probability or unigram fallback, is greater than 0 and at most 1.
C10_ProbInUnitInterval ==
    (last.op = "prob" /\ last.outcome = "ok" /\ is_normalized)
        => (RatLt(Zero, last.p) /\ RatLeq(last.p, One))

C10_Witness ==
    /\ last.op = "prob"
    /\ last.outcome = "ok"
    /\ is_normalized
    /\ last.path = "unigram"

(* ---------------- C11 .. C20 ---------------- *)

\* C11: on a trained (normalized) model every perplexity that is returned is
\* at least 1.0: the product of the scored probabilities is positive and at
\* most 1, i.e. the accumulated sum of their log2 is never positive
\* (perplexity = product ** (-1 / div)).
C11_PerplexityAtLeastOne ==
    (is_normalized /\ last.op = "perplexity" /\ last.outcome = "ok") =>
        RatLt(Zero, last.p) /\ RatLeq(last.p, One)

C11_Witness ==
    /\ is_normalized /\ last.op = "perplexity" /\ last.outcome = "ok"
    /\ last.scored >= 2 /\ RatLt(last.p, One)

\* C12: the backoff loop of prob ends after at most len(context) shortening
\* steps, and each step removes exactly the leftmost token: the context that
\* is looked up is the mapped context without its first `steps` tokens.
C12_BackoffDropsLeftmost ==
    (last.op = "prob" /\ last.outcome # "exit") =>
        /\ last.steps <= Len(last.context)
        /\ last.looked = SubSeq(ToVocab(vocab, last.context),
                                last.steps + 1, Len(last.context))

C12_Witness ==
    /\ last.op = "prob" /\ last.outcome = "ok" /\ last.steps = 1
    /\ Len(last.context) = 2 /\ last.context[1] # last.context[2]

\* C13: a train call on a corpus of zero utterances fails with an error and
\* does not leave a normalized model behind.
C13_EmptyCorpusFails ==
    (last.op = "train" /\ last.outcome # "exit" /\ trained.corpus = EmptyFn) =>
        last.outcome # "ok" /\ ~is_normalized

\* C14: on a normalized model prob, perplexity and perplexity_multi are
\* read-only: every such call leaves the context table, the vocabulary and
\* the normalized flag unchanged.
C14_QueriesReadOnly ==
    [][(is_normalized /\ last'.op \in {"prob", "perplexity", "perplexity_multi"}) =>
           (table' = table /\ vocab' = vocab /\ is_normalized' = is_normalized)]_vars

C14_Witness ==
    /\ is_normalized /\ DOMAIN table # {}
    /\ last.op = "perplexity_multi" /\ last.outcome = "ok" /\ Len(last.perps) = 2

RECURSIVE PerpsProduct(_)
PerpsProduct(perps) ==
    IF perps = << >> THEN One ELSE RatMul(perps[1].p, PerpsProduct(Tail(perps)))

RECURSIVE RatPow(_, _)
RatPow(x, n) == IF n = 0 THEN One ELSE RatMul(x, RatPow(x, n - 1))

\* C16: in the model trained on "the cat sat", "the cat ran", "the dog sat"
\* with min_freq 2 and order 2, prob("cat", ("the",)) is strictly greater
\* than prob("dog", ("the",)).
C16_CatBeatsDog ==
    (is_normalized /\ trained.corpus = BagOf(ScenarioCorpus)) =>
        LET cat == ProbCall("cat", <<"the">>)
            dog == ProbCall("dog", <<"the">>)
        IN  /\ cat.outcome = "ok"
            /\ dog.outcome = "ok"
            /\ RatLt(dog.p, cat.p)

C16_Witness ==
    /\ is_normalized /\ trained.corpus = BagOf(ScenarioCorpus)
    /\ last.op = "prob" /\ last.word = "dog" /\ last.context = <<"the">>
    /\ last.outcome = "ok" /\ last.path = "stored"

\* perplexity a < perplexity b, for a = pa ** (-1 / da) and b = pb ** (-1 / db):
\* pb ** (da / g) < pa ** (db / g), with g the gcd of the divisors.
PerpLt(a, b) ==
    LET g == GCD(a.div, b.div)
    IN  RatLt(RatPow(b.p, a.div \div g), RatPow(a.p, b.div \div g))

\* C17: in the same model perplexity("the cat sat") is finite, at least 1.0
\* and strictly less than perplexity("xyz qqq zzz").
C17_SeenBeatsUnseen ==
    (is_normalized /\ trained.corpus = BagOf(ScenarioCorpus)) =>
        LET seen == PerplexityCall(<<"the", "cat", "sat">>)
            unseen == PerplexityCall(<<"xyz", "qqq", "zzz">>)
        IN  /\ seen.outcome = "ok"
            /\ unseen.outcome = "ok"
            /\ RatLt(Zero, seen.p)
            /\ RatLeq(seen.p, One)
            /\ PerpLt(seen, unseen)

C17_Witness ==
    /\ is_normalized /\ trained.corpus = BagOf(ScenarioCorpus)
    /\ last.op = "perplexity" /\ last.utt = <<"xyz", "qqq", "zzz">>
    /\ last.outcome = "ok" /\ last.scored = 3

\* C19: in a sequence of runs of add_perplexities sharing one model file, once
\* a run has trained and saved a model (the file exists), no later run calls
\* train.
C19_NoRetrainAfterSave ==
    [][store.exists => ~(last'.op = "train" /\ last.op # "train")]_vars

C20_NormalizedValues ==
    (last.op = "train" /\ last.outcome = "ok") =>
        LET raw == trained.raw
            V == Cardinality(DOMAIN vocab)
        IN  /\ DOMAIN table = DOMAIN raw
            /\ \A k \in DOMAIN raw :
                 /\ DOMAIN table[k] = DOMAIN raw[k] \cup {OOV_TOKEN}
                 /\ table[k][OOV_TOKEN] = Rat(1, V)
                 /\ \A w \in DOMAIN raw[k] \ {OOV_TOKEN} :
                      table[k][w] =
                          RatDiv(RatAdd(raw[k][w], One),
                                 RatAdd(RatSum(raw[k]), <<V, 1>>))

C20_Witness ==
    /\ last.op = "train" /\ last.outcome = "ok"
    /\ \E k \in DOMAIN trained.raw :
         /\ OOV_TOKEN \in DOMAIN trained.raw[k]
         /\ RatLeq(<<2, 1>>, trained.raw[k][OOV_TOKEN])
         /\ DOMAIN trained.raw[k] # {OOV_TOKEN}

(* ---------------- C21 .. C28 ---------------- *)

\* C21: on a normalized model prob returns the stored probability when the
\* backed-off context is in the table and the mapped word is recorded after
\* it; in every other case (the word was never recorded after that context,
\* or even the shortest backed-off context is unknown) it returns the unigram
\* probability count(word) / sum of all vocabulary counts.
C21_StoredElseUnigram ==
    (is_normalized /\ last.op = "prob") =>
        LET w == ToVocabWord(vocab, last.word)
            ctx == last.looked
        IN  /\ last.outcome = "ok"
            /\ IF ctx \in DOMAIN table /\ w \in DOMAIN table[ctx]
               THEN last.p = table[ctx][w]
               ELSE /\ SumCounts(vocab) > 0
                    /\ last.p = Rat(Count(vocab, w), SumCounts(vocab))

\* The number of n-grams of orders 1 to n of the utterance u whose mapped
\* context and mapped last token are ctx and w.
Occurrences(u, v, n, ctx, w) ==
    LET g == GenerateNgrams(u, n)
    IN  Cardinality({i \in 1..Len(g) : /\ ToVocab(v, ContextOf(g[i])) = ctx
                                        /\ ToVocabWord(v, WordOf(g[i])) = w})

RECURSIVE OccurrencesOver(_, _, _, _, _, _)
OccurrencesOver(bag, S, v, n, ctx, w) ==
    IF S = {} THEN 0
    ELSE LET u == CHOOSE x \in S : TRUE
         IN  bag[u] * Occurrences(u, v, n, ctx, w)
                 + OccurrencesOver(bag, S \ {u}, v, n, ctx, w)

\* C22: when the counting loop of a train call ends, before normalization,
\* the table holds exact occurrence counts: every stored weight is a positive
\* integer, the number of padded n-grams of orders 1 to ngram_size of the
\* corpus whose mapped context and last token are that pair, and every such
\* pair is stored.
C22_RawCountsExact ==
    (last.op = "train" /\ last.outcome # "exit") =>
        LET raw == trained.raw
            v == trained.vocab
            bag == trained.corpus
            n(ctx, w) == OccurrencesOver(bag, DOMAIN bag, v, ngram_size, ctx, w)
            keys == DOMAIN v \cup {OOV_TOKEN}
        IN  /\ \A ctx \in DOMAIN raw : \A w \in DOMAIN raw[ctx] :
                   n(ctx, w) >= 1 /\ raw[ctx][w] = <<n(ctx, w), 1>>
            /\ \A ctx \in SeqsUpTo(keys, ngram_size - 1) : \A w \in keys :
                   n(ctx, w) >= 1 => (ctx \in DOMAIN raw /\ w \in DOMAIN raw[ctx])

\* C23: the n-gram perplexity drops from the end of the order-n sequence is a
\* right-edge padding n-gram for every utterance and every order >= 1: its
\* last element is the padding marker, and every real token of the utterance
\* is the predicted word of exactly one scored n-gram.
C23_DroppedIsPadding ==
    (is_normalized /\ last.op = "perplexity" /\ last.outcome = "ok") =>
        LET ngrams == Ngrams(last.utt, ngram_size)
            scored == Scored(last.utt, ngram_size)
        IN  /\ ngrams # << >> => WordOf(ngrams[Len(ngrams)]) = None
            /\ Cardinality({i \in 1..Len(scored) : WordOf(scored[i]) # None})
                   = Len(last.utt)

\* C24: for every utterance and every order, the divisor tokenCount + 1 of the
\* entropy equals the number of n-gram probabilities whose log2 was summed.
C24_DivisorIsScoredCount ==
    (is_normalized /\ last.op = "perplexity" /\ last.outcome = "ok") =>
        last.div = last.scored

\* C25: over the life of a model instance train completes at most once: every
\* train call that passes the state check ends with the normalized flag true,
\* so no second train call passes the state check and no table accumulates
\* the counts of two corpora.
C25_TrainCompletesOnce ==
    /\ (last.op = "train" /\ last.outcome # "exit") => is_normalized
    /\ trains <= 1

\* The number of whitespace tokens of a corpus plus its number of utterances.
RECURSIVE BagSizeOver(_, _)
BagSizeOver(bag, S) ==
    IF S = {} THEN 0
    ELSE LET u == CHOOSE x \in S : TRUE
         IN  bag[u] * (Len(u) + 1) + BagSizeOver(bag, S \ {u})

BagSize(bag) == BagSizeOver(bag, DOMAIN bag)

\* C26: after the vocabulary construction of a train call, the sum of
\* all vocabulary counts (OOV and the boundary token included) equals the
\* number of whitespace tokens of the corpus plus the number of utterances.
C26_VocabMassConserved ==
    (last.op = "train" /\ last.outcome # "exit") =>
        SumCounts(trained.vocab) = BagSize(trained.corpus)

\* C27: on a normalized model every context of the table records the OOV
\* token, so the unigram fallback of prob is never evaluated for the OOV token:
\* whenever it is reached, the mapped word is a retained vocabulary token with
\* a positive count and the probability returned is not 0, also when the
\* count of OOV is 0.
C27_FallbackNeverForOov ==
    is_normalized =>
        /\ \A ctx \in DOMAIN table : OOV_TOKEN \in DOMAIN table[ctx]
        /\ (last.op = "prob" /\ last.path = "unigram") =>
               LET w == ToVocabWord(vocab, last.word)
               IN  /\ w # OOV_TOKEN
                   /\ w \in DOMAIN vocab
                   /\ vocab[w] > 0
                   /\ last.outcome = "ok"
                   /\ RatLt(Zero, last.p)

C27_Witness ==
    /\ is_normalized /\ last.op = "prob" /\ last.path = "unigram"
    /\ OOV_TOKEN \in DOMAIN vocab /\ vocab[OOV_TOKEN] = 0
    /\ Len(last.looked) >= 1

\* C28: the backoff of prob never reaches the empty context: a query whose
\* context has length >= 1 looks up a context of length >= 1, and with an
\* order >= 2 no prob call of perplexity looks up the empty context, under
\* which training stored the order-1 distribution.
C28_NeverEmptyContext ==
    /\ (last.op = "prob" /\ last.outcome # "exit" /\ Len(last.context) >= 1) =>
           Len(last.looked) >= 1
    /\ (last.op = "perplexity" /\ is_normalized /\ ngram_size >= 2) =>
           \A i \in 1..Len(last.lookups) : Len(last.lookups[i]) >= 1

C28_Witness ==
    /\ is_normalized /\ ngram_size >= 2 /\ << >> \in DOMAIN table
    /\ last.op = "perplexity" /\ last.outcome = "KeyError"
    /\ Len(last.lookups) >= 2

====
